---------------------------- MODULE Spec2Model ----------------------------
(***************************************************************************)
(* Model of frontend/app.js: the client controller of the table extractor. *)
(* The state is the `state` object (files, uploadedFileIds, processing),   *)
(* the DOM elements the handlers write, the FileReader reads in flight and *)
(* the activations of the async function handleProcess.  One action per    *)
(* handler or per resumption of handleProcess after an await.              *)
(***************************************************************************)
EXTENDS Integers, Sequences, FiniteSets, Bags, TLC

\* ---------------------------------------------------------------- bounds
\* longest staged list the model explores
MaxFiles == 3
\* longest batch handed to addFiles
MaxBatch == 2
\* FileReader reads in flight at once
MaxPending == 1
\* activations of handleProcess that can exist at once
MaxSlots == 2
\* runs of handleProcess the model lets finish before it starts no more
MaxRuns == 1
\* calls of addFiles, removeFile, clearFileList and handleProcessAnother the
\* model interleaves with one suspended run
MaxEdits == 1

\* runs of handleProcess that finish one after the other under SpecSequence
MaxSequence == 2

\* ------------------------------------------------------ program constants
\* app.js:109
validTypes == {"image/png", "image/jpeg", "image/jpg", "image/bmp", "image/tiff"}
\* app.js:110
maxSize == 10 * 1024 * 1024

\* ------------------------------------------------------- input universes
\* a File object as the handlers see it: name, size, type
File(name, size, type) == [name |-> name, size |-> size, type |-> type]
\* the candidates a batch is made of: three that can be staged together (one
\* of them exactly at the size limit, two with the same name), one too
\* large, one of a type that is not allowed, one that is both
FileObjs ==
    {File("a", maxSize, "image/png"), File("a", maxSize - 1, "image/jpeg"),
     File("b", maxSize, "image/tiff"),
     File("b", maxSize + 1, "image/png"), File("a", maxSize, "text/plain"),
     File("b", maxSize + 1, "image/gif")}
NoFile == [name |-> "", size |-> 0, type |-> ""]

RECURSIVE SeqsUpTo(_, _)
SeqsUpTo(S, n) ==
    IF n = 0 THEN {<< >>}
    ELSE LET shorter == SeqsUpTo(S, n - 1)
         IN  shorter \cup {Append(s, x) : s \in {t \in shorter : Len(t) = n - 1}, x \in S}

Batches == SeqsUpTo(FileObjs, MaxBatch)
\* arguments window.removeFile can be called with
Indices == (0 - 2) .. MaxFiles
Slots == 1 .. MaxSlots

\* what the server answers to the k-th POST /upload of a run, {file_id,
\* filename}: an identifier of its own for every upload, and the name of the
\* file it received
UploadReply(k, file) == [file_id |-> k, filename |-> file.name]
\* what the server can answer to POST /process
\* preview_data: a grid of rows (possibly none), "absent" when the key is
\* missing, "malformed" when a row is no array
\* row_count, col_count: a number, or 0 - 1 standing for an absent key
\* excel_url: a path or "absent"
Grid(rows) == [kind |-> "grid", rows |-> rows]
ProcessReplies ==
    {[preview_data |-> Grid(<<<<"H1", "H2">>, <<"v1", "v2">>>>), row_count |-> 2,
      col_count |-> 2, excel_url |-> "/download/x.xlsx"],
     [preview_data |-> Grid(<< >>), row_count |-> 0 - 1, col_count |-> 3,
      excel_url |-> "absent"],
     [preview_data |-> [kind |-> "absent", rows |-> << >>], row_count |-> 4,
      col_count |-> 0 - 1, excel_url |-> ""],
     [preview_data |-> [kind |-> "malformed", rows |-> << >>], row_count |-> 1,
      col_count |-> 1, excel_url |-> "/download/y.xlsx"]}

\* fetch() settles with a response whose ok is true ("ok"), with one whose ok
\* is false ("bad"), or rejects ("err")
FetchOutcomes == {"ok", "bad", "err"}

VARIABLES
    files,            \* state.files
    uploadedFileIds,  \* state.uploadedFileIds, as the set of its keys
    processing,       \* state.processing
    btnDisabled,      \* processBtn.disabled
    fileListContent,  \* fileListContent.innerHTML
    imagePreview,     \* imagePreview.innerHTML
    tablePreview,     \* tablePreview.innerHTML
    counts,           \* rowCount / colCount / cellCount text
    downloadHref,     \* downloadLink.href
    resultShown,      \* resultSection.style.display = 'block'
    overlayShown,     \* loadingOverlay.style.display = 'flex'
    progress,         \* progressFill.style.width, as <<numerator, denominator>>
    loadingMessage,   \* loadingMessage.textContent
    pendingReads,     \* bag of files whose readAsDataURL has not fired onload
    runs,             \* the activations of handleProcess, by slot
    toasts,           \* notifications shown by the last step
    lastOp,           \* the handler of the last step and its argument: the
                      \* index removeFile got, the length of the batch
                      \* addFiles got (and, under SpecStaging, the batch),
                      \* 1 when handleProcess passed its guard
    finished,         \* runs finished so far
    edits             \* staging handlers called since the last run started

vars == <<files, uploadedFileIds, processing, btnDisabled, fileListContent,
          imagePreview, tablePreview, counts, downloadHref, resultShown,
          overlayShown, progress, loadingMessage, pendingReads, runs, toasts,
          lastOp, finished, edits>>

\* the elements handleProcess never writes
dom_run == <<fileListContent, imagePreview>>

dom == <<fileListContent, imagePreview, tablePreview, counts, downloadHref,
         resultShown, overlayShown, progress, loadingMessage>>

\* the markup the handlers write
ImagePlaceholder == [kind |-> "placeholder"]
TablePlaceholder == [kind |-> "placeholder"]
\* what index.html holds before any handler wrote the element
Markup == [kind |-> "html"]

Op(name) == [op |-> name, arg |-> 0, slot |-> 0, batch |-> << >>]

\* API_BASE_URL (app.js:2)
API_BASE_URL == "http://localhost:8000"

\* an activation of handleProcess: where it is suspended (pc), its locals
\* (i, uploadResults, processResults) and what it has done so far: the
\* requests it issued, the responses it received, the notifications it
\* showed, the results it rendered and the staged list it started from
IdleRun == [pc |-> "idle", i |-> 0, uploadResults |-> << >>,
            processResults |-> << >>, requests |-> << >>, responses |-> << >>,
            notes |-> << >>, rendered |-> << >>, startFiles |-> << >>]

\* a finished activation stays visible for one step, then it is gone
Retire(rs) == [s \in DOMAIN rs |-> IF rs[s].pc = "done" THEN IdleRun ELSE rs[s]]

InFlight(run) == run.pc \in {"upload_fetch", "upload_json", "process_fetch", "process_json"}

\* ------------------------------------------------------------ helpers
\* showToast(message, type): the notification, by type, message and the
\* file name or count the message carries
Toast(type, what, subject) ==
    [type |-> type, what |-> what, subject |-> subject, count |-> 0]
SuccessToast(n) ==
    [type |-> "success", what |-> "processed", subject |-> "", count |-> n]

RECURSIVE GCD(_, _)
GCD(a, b) == IF b = 0 THEN a ELSE GCD(b, a % b)

\* the width `${(num / den) * 100}%`, as a fraction in lowest terms
Percent(num, den) ==
    LET g == GCD(100 * num, den)
    IN  <<(100 * num) \div g, den \div g>>

\* IsValid with the size test written >= : a file of exactly the limit is lost
IsValidExclusive(file) == file.type \in validTypes /\ ~(file.size >= maxSize)

\* the filter callback of addFiles: TRUE keeps the file
IsValid(file) == file.type \in validTypes /\ ~(file.size > maxSize)

\* FilterToasts without the return after the first test: a file that breaks
\* both rules is reported twice
FilterToastsBoth(file) ==
    (IF file.type \notin validTypes THEN <<Toast("error", "type", file.name)>>
     ELSE << >>)
    \o (IF file.size > maxSize THEN <<Toast("error", "size", file.name)>>
        ELSE << >>)

\* the toasts the filter callback shows for one file
FilterToasts(file) ==
    IF file.type \notin validTypes THEN <<Toast("error", "type", file.name)>>
    ELSE IF file.size > maxSize THEN <<Toast("error", "size", file.name)>>
    ELSE << >>

RECURSIVE FilterValid(_)
FilterValid(batch) ==
    IF batch = << >> THEN << >>
    ELSE (IF IsValid(Head(batch)) THEN <<Head(batch)>> ELSE << >>)
         \o FilterValid(Tail(batch))

RECURSIVE FilterAllToasts(_)
FilterAllToasts(batch) ==
    IF batch = << >> THEN << >>
    ELSE FilterToasts(Head(batch)) \o FilterAllToasts(Tail(batch))

\* state.files.find(f => f.name === file.name && f.size === file.size)
ExistingFile(list, file) ==
    \E k \in 1 .. Len(list) : list[k].name = file.name /\ list[k].size = file.size

\* PushNew looking only at the list as it was before the call
PushNewUnseen(list, valid) ==
    list \o SelectSeq(valid, LAMBDA f : ~ExistingFile(list, f))

\* validFiles.forEach(...): push each file that find() does not match
RECURSIVE PushNew(_, _)
PushNew(list, valid) ==
    IF valid = << >> THEN list
    ELSE PushNew(IF ExistingFile(list, Head(valid)) THEN list
                 ELSE Append(list, Head(valid)),
                 Tail(valid))

\* Splice1 called as splice(start + 1, 1): the entry after the one meant
Splice1OffByOne(list, start) ==
    LET len == Len(list)
        from == IF start + 1 < len THEN start + 1 ELSE len
        deleteCount == IF 1 < len - from THEN 1 ELSE len - from
    IN  [k \in 1 .. (len - deleteCount) |->
            IF k <= from THEN list[k] ELSE list[k + deleteCount]]

\* Array.prototype.splice(start, 1) on a list: a negative start counts from
\* the end and is clamped to 0, a start past the end deletes nothing
Splice1(list, start) ==
    LET len == Len(list)
        actualStart == IF start < 0
                       THEN (IF len + start > 0 THEN len + start ELSE 0)
                       ELSE (IF start < len THEN start ELSE len)
        deleteCount == IF 1 < len - actualStart THEN 1 ELSE len - actualStart
    IN  [k \in 1 .. (len - deleteCount) |->
            IF k <= actualStart THEN list[k] ELSE list[k + deleteCount]]

\* updateFileList(): the rendered items, one per staged file with its index
RenderList(list) ==
    IF Len(list) = 0 THEN [kind |-> "empty"]
    ELSE [kind |-> "items", names |-> [k \in 1 .. Len(list) |-> list[k].name]]

\* ButtonDisabled without the processing flag
ButtonDisabledByLength(list, busy) == Len(list) = 0

\* updateProcessButton(): the value assigned to processBtn.disabled
ButtonDisabled(list, busy) == Len(list) = 0 \/ busy

\* previewFirstImage(): a read of files[0] is started, or the placeholder is
\* written at once
PreviewReads(list, reads) ==
    IF Len(list) > 0 THEN reads (+) SetToBag({list[1]}) ELSE reads

PreviewImage(list, shown) ==
    IF Len(list) > 0 THEN shown ELSE ImagePlaceholder

\* a staging handler is called: while a run is suspended it counts as an
\* interleaved call
Edit ==
    /\ UNCHANGED finished
    /\ (\E s \in Slots : InFlight(runs[s])) => edits < MaxEdits
    /\ edits' = IF \E s \in Slots : InFlight(runs[s]) THEN edits + 1 ELSE edits

CanRead(list) == Len(list) > 0 => BagCardinality(pendingReads) < MaxPending

\* ------------------------------------------------------------ Init
Init ==
    /\ files = << >>
    /\ uploadedFileIds = {}
    /\ processing = FALSE
    /\ btnDisabled \in BOOLEAN
    /\ fileListContent = Markup
    /\ imagePreview = Markup
    /\ tablePreview = Markup
    /\ counts = Markup
    /\ downloadHref = <<"", "#">>
    /\ resultShown = FALSE
    /\ overlayShown = FALSE
    /\ progress = <<0, 0>>
    /\ loadingMessage = <<"html", 0, 0>>
    /\ pendingReads = EmptyBag
    /\ runs = [s \in Slots |-> IdleRun]
    /\ toasts = << >>
    /\ lastOp = Op("init")
    /\ finished = 0
    /\ edits = 0

\* ------------------------------------------------------------ handlers
\* the body of addFiles(files)
AddFilesEffects(batch) ==
    LET validFiles == FilterValid(batch)
        newFiles == PushNew(files, validFiles)
    IN  /\ Len(newFiles) <= MaxFiles
        /\ Edit
        /\ CanRead(newFiles)
        /\ toasts' = FilterAllToasts(batch)
        /\ files' = newFiles
        /\ fileListContent' = RenderList(newFiles)
        /\ btnDisabled' = ButtonDisabled(newFiles, processing)
        /\ pendingReads' = PreviewReads(newFiles, pendingReads)
        /\ imagePreview' = PreviewImage(newFiles, imagePreview)
        /\ UNCHANGED <<uploadedFileIds, processing, tablePreview, counts,
                       downloadHref, resultShown, overlayShown, progress,
                       loadingMessage>>
        /\ runs' = Retire(runs)

\* handleFileSelect / handleDrop -> addFiles(files)
addFiles(batch) ==
    /\ AddFilesEffects(batch)
    /\ lastOp' = [op |-> "addFiles", arg |-> Len(batch), slot |-> 0,
                  batch |-> << >>]

\* addFiles(files), the batch kept in lastOp
addFilesOf(batch) ==
    /\ AddFilesEffects(batch)
    /\ lastOp' = [op |-> "addFiles", arg |-> Len(batch), slot |-> 0,
                  batch |-> batch]

\* removeFile(index), also reachable as window.removeFile
removeFile(index) ==
    LET newFiles == Splice1(files, index)
    IN  /\ Edit
        /\ CanRead(newFiles)
        /\ files' = newFiles
        /\ uploadedFileIds' = uploadedFileIds \ {index}
        /\ fileListContent' = RenderList(newFiles)
        /\ btnDisabled' = ButtonDisabled(newFiles, processing)
        /\ pendingReads' = PreviewReads(newFiles, pendingReads)
        /\ imagePreview' = PreviewImage(newFiles, imagePreview)
        /\ toasts' = << >>
        /\ lastOp' = [op |-> "removeFile", arg |-> index, slot |-> 0, batch |-> << >>]
        /\ UNCHANGED <<processing, tablePreview, counts, downloadHref,
                       resultShown, overlayShown, progress, loadingMessage>>
        /\ runs' = Retire(runs)

\* ClearedTable leaving the table preview as it is
ClearedTableKept(shown) == shown

\* clearPreviews(): what it writes to the table preview
ClearedTable(shown) == TablePlaceholder

\* the body of clearFileList(), shared with handleProcessAnother
ClearEffects ==
    /\ Edit
    /\ files' = << >>
    /\ uploadedFileIds' = {}
    /\ fileListContent' = RenderList(<< >>)
    /\ btnDisabled' = ButtonDisabled(<< >>, processing)
    /\ imagePreview' = ImagePlaceholder
    /\ tablePreview' = ClearedTable(tablePreview)
    /\ resultShown' = FALSE
    /\ toasts' = << >>
    /\ runs' = Retire(runs)
    /\ UNCHANGED <<processing, counts, downloadHref, overlayShown, progress,
                   loadingMessage, pendingReads>>

clearFileList ==
    /\ ClearEffects
    /\ lastOp' = Op("clearFileList")

\* hideResultSection(); clearFileList()
handleProcessAnother ==
    /\ ClearEffects
    /\ lastOp' = Op("handleProcessAnother")

\* reader.onload of one read in flight
readerOnload(file) ==
    /\ BagIn(file, pendingReads)
    /\ pendingReads' = pendingReads (-) SetToBag({file})
    /\ imagePreview' = [kind |-> "image", name |-> file.name, size |-> file.size]
    /\ toasts' = << >>
    /\ lastOp' = Op("onload")
    /\ UNCHANGED <<finished, edits>>
    /\ UNCHANGED <<files, uploadedFileIds, processing, btnDisabled,
                   fileListContent, tablePreview, counts, downloadHref,
                   resultShown, overlayShown, progress, loadingMessage>>
    /\ runs' = Retire(runs)

\* ---------------------------------------------------- handleProcess
\* Finally without hideLoading(): the overlay stays
FinallyKeepsOverlay(s, run, shown) ==
    /\ processing' = FALSE
    /\ btnDisabled' = ButtonDisabled(files, FALSE)
    /\ overlayShown' = overlayShown
    /\ toasts' = shown
    /\ finished' = finished + 1
    /\ runs' = [Retire(runs) EXCEPT ![s] = [run EXCEPT !.pc = "done",
                                               !.notes = run.notes \o shown]]

\* the finally block, after the notifications `shown` of this step
Finally(s, run, shown) ==
    /\ processing' = FALSE
    /\ btnDisabled' = ButtonDisabled(files, FALSE)
    /\ overlayShown' = FALSE
    /\ toasts' = shown
    /\ finished' = finished + 1
    /\ runs' = [Retire(runs) EXCEPT ![s] = [run EXCEPT !.pc = "done",
                                               !.notes = run.notes \o shown]]

\* Fail emptying the staged list
FailEmptying(s, run, what) ==
    /\ Finally(s, run, <<Toast("error", what, "")>>)
    /\ files' = << >>
    /\ UNCHANGED <<uploadedFileIds, dom_run, tablePreview, counts,
                   downloadHref, resultShown, pendingReads>>

\* throw ...; catch (error) { showToast(...) } finally { ... }
Fail(s, run, what) ==
    /\ Finally(s, run, <<Toast("error", what, "")>>)
    /\ UNCHANGED <<files, uploadedFileIds, dom_run, tablePreview, counts,
                   downloadHref, resultShown, pendingReads>>

\* DisplayTable writing the placeholder when there is no grid to show
DisplayTableOrPlaceholder(result, shown) ==
    IF result.preview_data.kind = "grid" /\ Len(result.preview_data.rows) > 0
    THEN [kind |-> "table", hasHeader |-> Len(result.preview_data.rows) > 1,
          rows |-> result.preview_data.rows]
    ELSE TablePlaceholder

\* displayResult(result): the table preview it leaves
DisplayTable(result, shown) ==
    IF result.preview_data.kind = "grid" /\ Len(result.preview_data.rows) > 0
    THEN [kind |-> "table", hasHeader |-> Len(result.preview_data.rows) > 1,
          rows |-> result.preview_data.rows]
    ELSE shown

\* result.row_count || 0
OrZero(n) == IF n < 0 THEN 0 ELSE n

DisplayCounts(result) ==
    [kind |-> "counts", row |-> OrZero(result.row_count),
     col |-> OrZero(result.col_count),
     cell |-> OrZero(result.row_count) * OrZero(result.col_count)]

\* DisplayHref resetting the link when the result has no excel_url
DisplayHrefReset(result, href) ==
    IF result.excel_url # "absent" /\ result.excel_url # ""
    THEN <<API_BASE_URL, result.excel_url>>
    ELSE <<"", "#">>

\* displayResult(result): the target of the download link it leaves
DisplayHref(result, href) ==
    IF result.excel_url # "absent" /\ result.excel_url # ""
    THEN <<API_BASE_URL, result.excel_url>>
    ELSE href

\* row.forEach on a row that is no array throws out of displayResult
DisplayThrows(result) == result.preview_data.kind = "malformed"

\* firstResult taken from the end of processResults
firstResultFromEnd(results) == results[Len(results)].result

\* const firstResult = processResults[0].result
firstResult(results) == results[1].result

\* after the process loop: displayResult(processResults[0].result), the
\* success notification, the finally block
Complete(s, run) ==
    IF Len(run.processResults) > 0 /\ DisplayThrows(firstResult(run.processResults))
    THEN Fail(s, run, "exception")
    ELSE LET first == firstResult(run.processResults)
             some == Len(run.processResults) > 0
         IN  /\ tablePreview' = IF some THEN DisplayTable(first, tablePreview)
                                ELSE tablePreview
             /\ counts' = IF some THEN DisplayCounts(first) ELSE counts
             /\ downloadHref' = IF some THEN DisplayHref(first, downloadHref)
                                ELSE downloadHref
             /\ resultShown' = IF some THEN TRUE ELSE resultShown
             /\ Finally(s, [run EXCEPT !.rendered =
                               IF some THEN Append(run.rendered, first)
                               ELSE run.rendered],
                        <<SuccessToast(Len(run.processResults))>>)
             /\ UNCHANGED <<files, uploadedFileIds, dom_run, pendingReads>>

\* the head of the second loop: i < uploadResults.length
ProcessLoop(s, run) ==
    IF run.i < Len(run.uploadResults)
    THEN LET up == run.uploadResults[run.i + 1]
         IN  /\ progress' = Percent(run.i + 1, Len(run.uploadResults))
             /\ loadingMessage' = <<"process", run.i + 1, Len(run.uploadResults)>>
             /\ runs' = [Retire(runs) EXCEPT ![s] =
                    [run EXCEPT !.pc = "process_fetch",
                                !.requests = Append(run.requests,
                                    [kind |-> "process", file |-> NoFile,
                                     fileId |-> up.fileId, filename |-> up.filename])]]
             /\ toasts' = << >>
             /\ UNCHANGED <<files, uploadedFileIds, processing, btnDisabled, finished,
                            fileListContent, imagePreview, tablePreview, counts,
                            downloadHref, resultShown, overlayShown, pendingReads>>
    ELSE /\ Complete(s, run)
         /\ UNCHANGED <<progress, loadingMessage>>

\* UploadRequests sending every remaining file at once, not awaiting each
UploadRequestsAtOnce(list, i) ==
    [k \in 1 .. (Len(list) - i) |->
        [kind |-> "upload", file |-> list[i + k], fileId |-> 0, filename |-> ""]]

\* the request one iteration of the first loop issues: POST /upload with
\* state.files[i] as the form data
UploadRequests(list, i) ==
    <<[kind |-> "upload", file |-> list[i + 1], fileId |-> 0, filename |-> ""]>>

\* the head of the first loop: i < state.files.length
UploadLoop(s, run) ==
    IF run.i < Len(files)
    THEN /\ progress' = Percent(run.i, Len(files))
         /\ loadingMessage' = <<"upload", run.i + 1, Len(files)>>
         /\ runs' = [Retire(runs) EXCEPT ![s] =
                [run EXCEPT !.pc = "upload_fetch",
                            !.requests = run.requests
                                         \o UploadRequests(files, run.i)]]
         /\ toasts' = << >>
         /\ UNCHANGED <<files, uploadedFileIds, processing, btnDisabled, finished,
                        fileListContent, imagePreview, tablePreview, counts,
                        downloadHref, resultShown, overlayShown, pendingReads>>
    ELSE ProcessLoop(s, [run EXCEPT !.i = 0])

\* Guarded without the processing flag
GuardedByLength == Len(files) = 0

\* the guard of handleProcess
Guarded == Len(files) = 0 \/ processing

\* the activation a call of handleProcess gets
FreeSlot == CHOOSE s \in Slots :
                /\ ~InFlight(runs[s])
                /\ \A t \in Slots : ~InFlight(runs[t]) => s <= t

\* a click on processBtn (or any call of handleProcess), up to its first
\* await; a run starts while fewer than `limit` runs have finished
handleProcessWithin(limit) ==
    /\ lastOp' = [op |-> "handleProcess", arg |-> IF Guarded THEN 0 ELSE 1,
                  slot |-> 0, batch |-> << >>]
    /\ IF Guarded
       THEN /\ toasts' = << >>
            /\ runs' = Retire(runs)
            /\ UNCHANGED <<finished, edits>>
            /\ UNCHANGED <<files, uploadedFileIds, processing, btnDisabled, dom,
                           pendingReads>>
       ELSE /\ \E s \in Slots : ~InFlight(runs[s])
            /\ finished < limit
            /\ UNCHANGED finished
            /\ edits' = 0
            /\ processing' = TRUE
            /\ btnDisabled' = ButtonDisabled(files, TRUE)
            /\ overlayShown' = TRUE
            /\ progress' = Percent(0, Len(files))
            /\ loadingMessage' = <<"upload", 1, Len(files)>>
            /\ runs' = [Retire(runs) EXCEPT ![FreeSlot] =
                   [IdleRun EXCEPT !.pc = "upload_fetch",
                                   !.startFiles = files,
                                   !.requests = UploadRequests(files, 0)]]
            /\ toasts' = << >>
            /\ UNCHANGED <<files, uploadedFileIds, fileListContent, imagePreview,
                           tablePreview, counts, downloadHref, resultShown,
                           pendingReads>>

handleProcess == handleProcessWithin(MaxRuns)

\* Aborts never throwing
AbortsNever(outcome) == FALSE

\* if (!response.ok) throw new Error(...)
Aborts(outcome) == outcome = "bad"

\* `await fetch(.../upload)` settles
uploadResponse(s, outcome) ==
    LET run == [runs[s] EXCEPT !.responses = Append(runs[s].responses, outcome)]
    IN  /\ runs[s].pc = "upload_fetch"
        /\ lastOp' = [op |-> "uploadResponse", arg |-> 0, slot |-> s, batch |-> << >>]
        /\ UNCHANGED edits
        /\ IF outcome # "err" /\ ~Aborts(outcome)
           THEN /\ runs' = [Retire(runs) EXCEPT ![s] = [run EXCEPT !.pc = "upload_json"]]
                /\ toasts' = << >>
                /\ UNCHANGED <<files, uploadedFileIds, processing, btnDisabled,
                               finished, dom, pendingReads>>
           ELSE /\ Fail(s, run, IF outcome = "bad" THEN "upload" ELSE "exception")
                /\ UNCHANGED <<progress, loadingMessage>>

\* `await response.json()` of an upload settles with the parsed body
uploadJson(s) ==
    LET sent == runs[s].requests[Len(runs[s].requests)]
        reply == UploadReply(Len(runs[s].requests), sent.file)
        run == [runs[s] EXCEPT
                   !.uploadResults = Append(runs[s].uploadResults,
                       [index |-> runs[s].i, fileId |-> reply.file_id,
                        filename |-> reply.filename]),
                   !.i = runs[s].i + 1]
    IN  /\ runs[s].pc = "upload_json"
        /\ lastOp' = [op |-> "uploadJson", arg |-> 0, slot |-> s, batch |-> << >>]
        /\ UNCHANGED edits
        /\ UploadLoop(s, run)

\* `await response.json()` rejects: the body is no JSON
jsonFails(s) ==
    /\ runs[s].pc \in {"upload_json", "process_json"}
    /\ lastOp' = [op |-> "jsonFails", arg |-> 0, slot |-> s, batch |-> << >>]
    /\ UNCHANGED edits
    /\ Fail(s, runs[s], "exception")
    /\ UNCHANGED <<progress, loadingMessage>>

\* `await fetch(.../process?...)` settles
processResponse(s, outcome) ==
    LET run == [runs[s] EXCEPT !.responses = Append(runs[s].responses, outcome)]
    IN  /\ runs[s].pc = "process_fetch"
        /\ lastOp' = [op |-> "processResponse", arg |-> 0, slot |-> s, batch |-> << >>]
        /\ UNCHANGED edits
        /\ IF outcome # "err" /\ ~Aborts(outcome)
           THEN /\ runs' = [Retire(runs) EXCEPT ![s] = [run EXCEPT !.pc = "process_json"]]
                /\ toasts' = << >>
                /\ UNCHANGED <<files, uploadedFileIds, processing, btnDisabled,
                               finished, dom, pendingReads>>
           ELSE /\ Fail(s, run, IF outcome = "bad" THEN "process" ELSE "exception")
                /\ UNCHANGED <<progress, loadingMessage>>

\* `await response.json()` of a process call settles with the parsed body
processJson(s, reply) ==
    LET up == runs[s].uploadResults[runs[s].i + 1]
        run == [runs[s] EXCEPT
                   !.processResults = Append(runs[s].processResults,
                       [index |-> up.index, result |-> reply]),
                   !.i = runs[s].i + 1]
    IN  /\ runs[s].pc = "process_json"
        /\ lastOp' = [op |-> "processJson", arg |-> 0, slot |-> s, batch |-> << >>]
        /\ UNCHANGED edits
        /\ ProcessLoop(s, run)

Next ==
    \/ handleProcess
    \/ \E s \in Slots, outcome \in FetchOutcomes : uploadResponse(s, outcome)
    \/ \E s \in Slots : uploadJson(s)
    \/ \E s \in Slots : jsonFails(s)
    \/ \E s \in Slots, outcome \in FetchOutcomes : processResponse(s, outcome)
    \/ \E s \in Slots, reply \in ProcessReplies : processJson(s, reply)
    \/ \E batch \in Batches : addFiles(batch)
    \/ \E index \in Indices : removeFile(index)
    \/ clearFileList
    \/ handleProcessAnother
    \/ \E file \in FileObjs : readerOnload(file)

Spec == Init /\ [][Next]_vars

\* the staging handlers alone, each addFiles call with its batch on record
NextStaging ==
    \/ \E batch \in Batches : addFilesOf(batch)
    \/ \E index \in Indices : removeFile(index)
    \/ clearFileList
    \/ handleProcessAnother
    \/ \E file \in FileObjs : readerOnload(file)

SpecStaging == Init /\ [][NextStaging]_vars

\* the suspended activation in slot s is resumed: the request it awaits
\* returns a response or an error, or the body it awaits is parsed or not
RunStep(s) ==
    \/ \E outcome \in FetchOutcomes : uploadResponse(s, outcome)
    \/ uploadJson(s)
    \/ jsonFails(s)
    \/ \E outcome \in FetchOutcomes : processResponse(s, outcome)
    \/ \E reply \in ProcessReplies : processJson(s, reply)

\* every handler, and every await of a run settles eventually
SpecFair == Spec /\ \A s \in Slots : WF_vars(RunStep(s))

\* ------------------------------------------------------------ properties
SamePair(f, g) == f.name = g.name /\ f.size = g.size

\* C1: in every reachable state the staged list holds no two entries with
\* the same (name, size) pair.
C1_NoDuplicatePairs ==
    \A j, k \in 1 .. Len(files) : j # k => ~SamePair(files[j], files[k])

\* addFiles got two candidates, rejected neither and the list holds one entry
C1_Witness ==
    /\ lastOp.op = "addFiles"
    /\ lastOp.arg = 2
    /\ toasts = << >>
    /\ Len(files) = 1

\* the process trigger is enabled exactly when the list is non-empty and the
\* processing flag is false
ButtonSynced == (~btnDisabled) <=> (Len(files) > 0 /\ ~processing)

StagingOps == {"addFiles", "removeFile", "clearFileList", "handleProcessAnother"}

\* C2: after addFiles, removeFile, clearFileList, the start of handleProcess
\* and the end of handleProcess, also when they interleave with a suspended
\* run, the process trigger is enabled iff the staged list is non-empty and
\* the processing flag is false.
C2_ButtonTracksState ==
    (\/ lastOp.op \in StagingOps
     \/ lastOp.op = "handleProcess" /\ lastOp.arg = 1
     \/ \E s \in Slots : runs[s].pc = "done")
    => ButtonSynced

\* a staging handler ran while a run was suspended and emptied the list
C2_Witness ==
    /\ lastOp.op \in StagingOps
    /\ processing
    /\ edits = 1
    /\ Len(files) = 0
    /\ btnDisabled

\* C3: the processing flag is true exactly while a run is in flight, and at
\* most one run is in flight at any time.
C3_OneRunInFlight ==
    /\ processing <=> (\E s \in Slots : InFlight(runs[s]))
    /\ Cardinality({s \in Slots : InFlight(runs[s])}) <= 1

\* handleProcess was called during a run and returned at its guard
C3_Witness ==
    /\ lastOp.op = "handleProcess"
    /\ lastOp.arg = 0
    /\ processing
    /\ Len(files) > 0
    /\ \E s \in Slots : InFlight(runs[s])

\* C4: handleProcess called with an empty staged list or with the processing
\* flag set issues no request, shows no notification and leaves the staged
\* list, the flag, the overlay and the progress display unchanged.
C4_GuardedCallIsNoOp ==
    [][(lastOp'.op = "handleProcess" /\ (Len(files) = 0 \/ processing))
       => /\ toasts' = << >>
          /\ runs' = Retire(runs)
          /\ UNCHANGED <<files, uploadedFileIds, processing, btnDisabled, dom,
                         pendingReads>>]_vars

\* handleProcess returned at its guard while a run was waiting for a process
\* response and the list had been emptied meanwhile
C4_Witness ==
    /\ lastOp.op = "handleProcess"
    /\ lastOp.arg = 0
    /\ Len(files) = 0
    /\ \E s \in Slots : runs[s].pc = "process_fetch"

\* 10 MiB in bytes
TenMiB == 10485760

AllowList == {"image/png", "image/jpeg", "image/jpg", "image/bmp", "image/tiff"}

Rejected(f) == f.type \notin AllowList \/ f.size > TenMiB

RejectedAt(batch) == {j \in 1 .. Len(batch) : Rejected(batch[j])}

\* C5: in every addFiles batch no rejected candidate (type outside the
\* allow-list or size above 10485760) is staged, and the call shows exactly
\* one error notification per rejected candidate and no other notification.
C5_OneErrorPerRejected ==
    [][lastOp'.op = "addFiles"
       => LET batch == lastOp'.batch
          IN  /\ Len(toasts') = Cardinality(RejectedAt(batch))
              /\ \A t \in 1 .. Len(toasts') : toasts'[t].type = "error"
              /\ \A j \in RejectedAt(batch) :
                    /\ \A k \in 1 .. Len(files') : files'[k] # batch[j]
                    /\ \E t \in 1 .. Len(toasts') :
                          toasts'[t].subject = batch[j].name
              /\ (RejectedAt(batch) = {} => toasts' = << >>)]_vars

\* addFiles got a candidate that is too large and of a type that is not
\* allowed, then a duplicate of a staged file, and showed one notification
C5_Witness ==
    /\ lastOp.op = "addFiles"
    /\ Len(lastOp.batch) = 2
    /\ lastOp.batch[1].size > TenMiB
    /\ lastOp.batch[1].type \notin AllowList
    /\ \E k \in 1 .. Len(files) : files[k] = lastOp.batch[2]
    /\ Len(files) = 1
    /\ Len(toasts) = 1

\* the candidates of a batch that are staged: allowed type, size within the
\* limit, no (name, size) match in the list before the call nor among the
\* valid candidates before them in the batch
AcceptedAt(list, batch) ==
    {j \in 1 .. Len(batch) :
        /\ ~Rejected(batch[j])
        /\ \A k \in 1 .. Len(list) : ~SamePair(list[k], batch[j])
        /\ \A h \in 1 .. (j - 1) : Rejected(batch[h]) \/ ~SamePair(batch[h], batch[j])}

\* the entries of seq at the positions in J, in order
RECURSIVE Pick(_, _, _)
Pick(seq, J, j) ==
    IF j > Len(seq) THEN << >>
    ELSE (IF j \in J THEN <<seq[j]>> ELSE << >>) \o Pick(seq, J, j + 1)

\* C6: after addFiles(batch) the staged list is the previous list followed,
\* in batch order, by exactly the candidates with an allowed type, a size of
\* at most 10485760 and no (name, size) match among the entries staged
\* before them.
C6_AppendsAccepted ==
    [][lastOp'.op = "addFiles"
       => files' = files \o Pick(lastOp'.batch,
                                 AcceptedAt(files, lastOp'.batch), 1)]_vars

\* addFiles rejected the first of two candidates and staged the second, a
\* file of exactly 10485760 bytes, behind an entry of the same name
C6_Witness ==
    /\ lastOp.op = "addFiles"
    /\ Len(lastOp.batch) = 2
    /\ Rejected(lastOp.batch[1])
    /\ Len(files) = 2
    /\ files[2] = lastOp.batch[2]
    /\ files[2].size = TenMiB
    /\ files[1].name = files[2].name

\* C7: removeFile(i) with 0 <= i < n leaves n - 1 entries, the entry
\* formerly at i absent and the others in their order.
C7_RemoveInRange ==
    [][(lastOp'.op = "removeFile" /\ lastOp'.arg >= 0 /\ lastOp'.arg < Len(files))
       => /\ Len(files') = Len(files) - 1
          /\ \A k \in 1 .. Len(files') :
                files'[k] = IF k <= lastOp'.arg THEN files[k] ELSE files[k + 1]
          /\ \A k \in 1 .. Len(files') : files'[k] # files[lastOp'.arg + 1]]_vars

\* removeFile(1) took the middle entry of three
C7_Witness ==
    /\ lastOp.op = "removeFile"
    /\ lastOp.arg = 1
    /\ Len(files) = 2

\* C8: removeFile(i) with i < 0 or i >= n leaves the staged list unchanged.
C8_OutOfRangeKeepsList ==
    [][(lastOp'.op = "removeFile" /\ (lastOp'.arg < 0 \/ lastOp'.arg >= Len(files)))
       => files' = files]_vars

\* C9: clearFileList and handleProcessAnother leave an empty staged list, an
\* empty upload-identifier cache, a hidden result section and both previews
\* in placeholder state.
C9_ClearResets ==
    [][lastOp'.op \in {"clearFileList", "handleProcessAnother"}
       => /\ files' = << >>
          /\ uploadedFileIds' = {}
          /\ ~resultShown'
          /\ imagePreview' = ImagePlaceholder
          /\ tablePreview' = TablePlaceholder]_vars

\* the list was cleared after a run had rendered a result
C9_Witness ==
    /\ lastOp.op \in {"clearFileList", "handleProcessAnother"}
    /\ finished > 0
    /\ counts # Markup
    /\ downloadHref # <<"", "#">>
    /\ ~resultShown

\* C10: once a run has received a response with a non-success status it
\* issues no further request, and after a failed upload it makes no process
\* call at all.
C10_FailureStopsRequests ==
    \A s \in Slots :
        \A k \in 1 .. Len(runs[s].responses) :
            runs[s].responses[k] = "bad"
            => /\ Len(runs[s].requests) = k
               /\ (runs[s].requests[k].kind = "upload"
                   => \A r \in 1 .. k : runs[s].requests[r].kind = "upload")

\* a run of three files ended at the failure of its second upload
C10_Witness ==
    \E s \in Slots :
        /\ runs[s].pc = "done"
        /\ Len(runs[s].startFiles) = 3
        /\ Len(files) = 3
        /\ runs[s].responses = <<"ok", "bad">>
        /\ Len(runs[s].requests) = 2

\* runs one after the other: files are added (also during a run) and
\* handleProcess is called again after a run has ended
NextSequence ==
    \/ handleProcessWithin(MaxSequence)
    \/ \E s \in Slots : RunStep(s)
    \/ \E batch \in Batches : addFiles(batch)
    \/ \E file \in FileObjs : readerOnload(file)

SpecSequence == Init /\ [][NextSequence]_vars

\* C11: every run that starts ends, on every exit path, with the processing
\* flag false, the overlay hidden and the process trigger re-evaluated; and
\* when every await of a run settles, every started run reaches that end.
C11_RunEnds ==
    /\ [](\A s \in Slots :
            runs[s].pc = "done"
            => /\ ~processing
               /\ ~overlayShown
               /\ ButtonSynced)
    /\ \A s \in Slots : InFlight(runs[s]) ~> (runs[s].pc = "done")

\* a run whose requests all succeeded ended in the catch block, because
\* rendering its first result threw, after the list had been emptied
C11_Witness ==
    \E s \in Slots :
        /\ runs[s].pc = "done"
        /\ runs[s].responses = <<"ok", "ok">>
        /\ Len(runs[s].processResults) = 1
        /\ runs[s].notes = <<Toast("error", "exception", "")>>
        /\ Len(files) = 0
        /\ btnDisabled
        /\ ~processing
        /\ ~overlayShown

\* every request of the run got an ok response, every body was parsed and
\* rendering the first result did not throw
Succeeded(run) ==
    /\ \A k \in 1 .. Len(run.responses) : run.responses[k] = "ok"
    /\ Len(run.uploadResults) + Len(run.processResults) = Len(run.requests)
    /\ \A k \in 1 .. Len(run.processResults) :
          k = 1 => run.processResults[k].result.preview_data.kind # "malformed"

\* C12: every run emits exactly one notification: a success notification
\* carrying the number of files processed when every upload and every
\* process call succeeded, that number being the number of files staged when
\* the run started; otherwise one error notification and no success.
C12_OneNotification ==
    \A s \in Slots :
        runs[s].pc = "done"
        => /\ Len(runs[s].notes) = 1
           /\ IF Succeeded(runs[s])
              THEN /\ runs[s].notes[1].type = "success"
                   /\ runs[s].notes[1].count = Len(runs[s].processResults)
                   /\ runs[s].notes[1].count = Len(runs[s].startFiles)
              ELSE runs[s].notes[1].type = "error"

\* C13: within a run at most one request is outstanding at any time and the
\* requests are totally ordered: a request is issued only after the one
\* before it got an ok response, and no upload follows a process call.
C13_OneRequestAtATime ==
    \A s \in Slots :
        LET issued == Len(runs[s].requests)
            answered == Len(runs[s].responses)
        IN  /\ issued - answered \in {0, 1}
            /\ (runs[s].pc \in {"upload_fetch", "process_fetch"}) <=> (issued - answered = 1)
            /\ \A k \in 1 .. (issued - 1) : runs[s].responses[k] = "ok"
            /\ \A j, k \in 1 .. issued :
                  (j < k /\ runs[s].requests[j].kind = "process")
                  => runs[s].requests[k].kind = "process"

\* a run of two files waits for the response to its second process call
C13_Witness ==
    \E s \in Slots :
        /\ runs[s].pc = "process_fetch"
        /\ Len(runs[s].requests) = 4
        /\ Len(runs[s].responses) = 3
        /\ runs[s].requests[2].kind = "upload"
        /\ runs[s].requests[3].kind = "process"

Uploads(run) == SelectSeq(run.requests, LAMBDA r : r.kind = "upload")
ProcessCalls(run) == SelectSeq(run.requests, LAMBDA r : r.kind = "process")

\* C14: a run submits each file staged at its start to the upload endpoint
\* exactly once, in staged order, and its k-th process call carries the
\* identifier and filename returned for its k-th upload, whatever staging
\* handlers run while it is suspended.
C14_UploadsFollowStagedList ==
    \A s \in Slots :
        LET ups == Uploads(runs[s])
            calls == ProcessCalls(runs[s])
            start == runs[s].startFiles
        IN  /\ Len(ups) <= Len(start)
            /\ \A k \in 1 .. Len(ups) : k <= Len(start) => ups[k].file = start[k]
            /\ Len(calls) > 0 => Len(ups) = Len(start)
            /\ \A k \in 1 .. Len(calls) :
                  /\ k <= Len(ups)
                  /\ calls[k].fileId = UploadReply(k, ups[k].file).file_id
                  /\ calls[k].filename = UploadReply(k, ups[k].file).filename


\* C15: while a run is in flight (processing flag true, suspended at a
\* request) addFiles, removeFile (called with an index of the list) and
\* clearFileList do not modify the staged list the run iterates over.
C15_ListUntouchedInFlight ==
    [][(/\ processing
        /\ \E s \in Slots : InFlight(runs[s])
        /\ \/ lastOp'.op \in {"addFiles", "clearFileList"}
           \/ lastOp'.op = "removeFile" /\ lastOp'.arg \in 0 .. (Len(files) - 1))
       => files' = files]_vars


RunOps == {"uploadResponse", "uploadJson", "jsonFails", "processResponse", "processJson"}

\* the run in slot s ends in this step
Ends(s) == runs[s].pc # "done" /\ runs'[s].pc = "done"

\* C16: a run renders a result only when all its uploads and process calls
\* succeeded; it then renders exactly one result, the response of the
\* process call for the first file it was started with; a run that fails,
\* and every step before the end of a run, renders nothing.
C16_RendersFirstResultOnly ==
    [][/\ \A s \in Slots :
            Ends(s)
            => LET run == runs'[s]
               IN  IF run.notes[Len(run.notes)].type = "success"
                   THEN /\ \A k \in 1 .. Len(run.responses) : run.responses[k] = "ok"
                        /\ Len(run.uploadResults) + Len(run.processResults)
                              = Len(run.requests)
                        /\ Uploads(run)[1].file = run.startFiles[1]
                        /\ ProcessCalls(run)[1].fileId
                              = UploadReply(1, run.startFiles[1]).file_id
                        /\ run.processResults[1].index = 0
                        /\ run.rendered = <<run.processResults[1].result>>
                        /\ tablePreview' = DisplayTable(run.processResults[1].result,
                                                        tablePreview)
                        /\ counts' = DisplayCounts(run.processResults[1].result)
                        /\ resultShown'
                   ELSE /\ run.rendered = << >>
                        /\ UNCHANGED <<tablePreview, counts, downloadHref, resultShown>>
       /\ ((lastOp'.op \in RunOps \cup {"handleProcess"} /\ \A s \in Slots : ~Ends(s))
           => /\ UNCHANGED <<tablePreview, counts, downloadHref, resultShown>>
              /\ \A s \in Slots : runs'[s].rendered = << >>)]_vars

\* a run of two files ended with success and shows the counts of the first
\* reply, not those of the second
C16_Witness ==
    \E s \in Slots :
        /\ runs[s].pc = "done"
        /\ Len(runs[s].processResults) = 2
        /\ runs[s].processResults[1].result # runs[s].processResults[2].result
        /\ runs[s].notes = <<SuccessToast(2)>>
        /\ counts = DisplayCounts(runs[s].processResults[1].result)
        /\ counts # DisplayCounts(runs[s].processResults[2].result)
        /\ resultShown


\* C17: after any sequence of staging handlers, once every pending file
\* read has delivered its onload, the image preview shows the first staged
\* file when the list is non-empty and the placeholder when it is empty.
C17_PreviewFollowsList ==
    (fileListContent # Markup /\ pendingReads = EmptyBag)
    => imagePreview = IF Len(files) > 0
                      THEN [kind |-> "image", name |-> files[1].name,
                            size |-> files[1].size]
                      ELSE ImagePlaceholder


\* the preview_data of a result holds no row, or the result has none
NoPreview(result) ==
    \/ result.preview_data.kind = "absent"
    \/ result.preview_data.kind = "grid" /\ result.preview_data.rows = << >>

\* a count of a result, zero when the key is absent
CountOf(n) == IF n = 0 - 1 THEN 0 ELSE n

\* C18: displayResult of a result with empty or missing preview_data leaves
\* the table preview as it was and sets the row, column and cell counts to
\* the result's row_count, col_count and their product, an absent count
\* taken as zero.
C18_EmptyPreviewKeepsTable ==
    [][\A s \in Slots :
          (/\ Ends(s)
           /\ runs'[s].rendered # << >>
           /\ NoPreview(runs'[s].rendered[1]))
          => LET result == runs'[s].rendered[1]
             IN  /\ tablePreview' = tablePreview
                 /\ counts'.row = CountOf(result.row_count)
                 /\ counts'.col = CountOf(result.col_count)
                 /\ counts'.cell = CountOf(result.row_count) * CountOf(result.col_count)]_vars

\* the second run rendered a result without preview_data and without
\* col_count: the table of the first run is still shown, the counts are new
C18_Witness ==
    \E s \in Slots :
        /\ runs[s].pc = "done"
        /\ finished = 2
        /\ runs[s].rendered # << >>
        /\ runs[s].rendered[1].preview_data.kind = "absent"
        /\ tablePreview.kind = "table"
        /\ counts = [kind |-> "counts", row |-> 4, col |-> 0, cell |-> 0]


\* the result carries a (non-empty) excel_url
HasUrl(result) == result.excel_url \notin {"absent", ""}

\* C19: displayResult sets the download link to the base address followed
\* by excel_url when the result carries one and leaves the link as it was
\* otherwise, and no other step touches the link: after a sequence of runs
\* it targets the most recent rendered result that carried an excel_url.
C19_LinkKeepsLastArtifact ==
    [][IF \E s \in Slots : Ends(s) /\ runs'[s].rendered # << >>
       THEN \A s \in Slots :
               (Ends(s) /\ runs'[s].rendered # << >>)
               => downloadHref' =
                     IF HasUrl(runs'[s].rendered[1])
                     THEN <<API_BASE_URL, runs'[s].rendered[1].excel_url>>
                     ELSE downloadHref
       ELSE downloadHref' = downloadHref]_vars

\* the second run rendered a result without excel_url: the link still
\* targets the artifact of the first run
C19_Witness ==
    \E s \in Slots :
        /\ runs[s].pc = "done"
        /\ finished = 2
        /\ runs[s].rendered # << >>
        /\ ~HasUrl(runs[s].rendered[1])
        /\ downloadHref = <<"http://localhost:8000", "/download/x.xlsx">>


\* the entries of a list
Entries(list) == {list[k] : k \in 1 .. Len(list)}

\* C20: no step of a run changes the staged list; a run that no staging
\* handler interleaved with ends, in success or failure, with the list it
\* started with; and an entry leaves the list only in a step of removeFile,
\* clearFileList or handleProcessAnother.
C20_RunKeepsList ==
    [][/\ lastOp'.op \in RunOps \cup {"handleProcess"} => files' = files
       /\ \A s \in Slots : (Ends(s) /\ edits' = 0) => files' = runs'[s].startFiles
       /\ ~(Entries(files) \subseteq Entries(files'))
          => lastOp'.op \in {"removeFile", "clearFileList", "handleProcessAnother"}]_vars

\* a run of two files failed, no staging handler ran meanwhile: the list is
\* the one it started with and the process trigger is enabled again
C20_Witness ==
    \E s \in Slots :
        /\ runs[s].pc = "done"
        /\ edits = 0
        /\ Len(runs[s].startFiles) = 2
        /\ files = runs[s].startFiles
        /\ runs[s].notes = <<Toast("error", "process", "")>>
        /\ ~btnDisabled

==========================================================================
